---- MODULE Spec2Model ----
(***************************************************************************)
(* Model of tensor2tensor/trax/rlax/ppo_main.py: the PPO driver that turns *)
(* command-line flags into two environments, a set of network/optimizer    *)
(* factories and one call of ppo.training_loop.                            *)
(*                                                                         *)
(* Strings are sequences of one-character strings, so that the substring   *)
(* test ("Pong" in name), truthiness and int() are computed, not assumed.  *)
(* Python's None and optional values are sequences of length 0 or 1.       *)
(* Learning rates are counted in units of 1e-4 (3e-4 is 3, 1e-3 is 10).    *)
(***************************************************************************)
EXTENDS Integers, Sequences, FiniteSets, TLC

VARIABLES
  FLAGS,          \* the parsed command line, read-only during the run
  pc,             \* position in main / run_training_loop
  config,         \* jax.config: the NaN trap and the platform name
  jit_disabled,   \* the backend's JIT mode (TRUE inside jax.disable_jit())
  jit_saved,      \* the mode the open disable_jit() scope will put back
  atari,          \* FLAGS.atari_roms_path and whether copy_roms() ran
  env,            \* main's local env
  eval_env,       \* main's local eval_env
  nets,           \* the six *_fun locals of run_training_loop
  random_seed,    \* the local random_seed of run_training_loop
  trainer_calls,  \* number of calls of ppo.training_loop
  trainer_args,   \* the arguments of that call
  thrown,         \* the exception ppo.training_loop raised, if any
  error           \* the exception that left main, if any

vars == <<FLAGS, pc, config, jit_disabled, jit_saved, atari, env, eval_env,
          nets, random_seed, trainer_calls, trainer_args, thrown, error>>

----------------------------------------------------------------------------
(* Bounds of the model *)

\* train and eval batch sizes range over 1..MaxBatch
MaxBatch == 2
\* seed strings have at most MaxSeedLen characters
MaxSeedLen == 2

----------------------------------------------------------------------------
(* Python values *)

None == <<>>
Some(v) == <<v>>

\* bool(x) of an optional string: None and "" are falsy
Truthy(opt) == opt # None /\ opt[1] # <<>>

\* sub in s, for strings
Contains(sub, s) ==
  \E i \in 0..(Len(s) - Len(sub)) : SubSeq(s, i + 1, i + Len(sub)) = sub

Pong == <<"P", "o", "n", "g">>

EmptyName == <<>>
CartPoleV0 == <<"C", "a", "r", "t", "P", "o", "l", "e", "-", "v", "0">>
CartPoleV1 == <<"C", "a", "r", "t", "P", "o", "l", "e", "-", "v", "1">>
PongV0 == <<"P", "o", "n", "g", "-", "v", "0">>
PongNoFrameskipV4 == <<"P", "o", "n", "g", "N", "o", "F", "r", "a", "m", "e",
                       "s", "k", "i", "p", "-", "v", "4">>
PingPongV0 == <<"P", "i", "n", "g", "P", "o", "n", "g", "-", "v", "0">>

\* values of --env_name and --env_problem_name (both default to None)
EnvNames == {None, Some(EmptyName), Some(CartPoleV0), Some(PongV0)}
EnvProblemNames == {None, Some(EmptyName), Some(CartPoleV1),
                    Some(PongNoFrameskipV4), Some(PingPongV0)}

----------------------------------------------------------------------------
(* Flag defaults *)

DefaultBatchSize == 32
DefaultEvalBatchSize == 4
DefaultResizedHeight == 105
DefaultResizedWidth == 80
DefaultLearningRate == 10
DefaultPolicyOnlyLearningRate == 3
DefaultValueOnlyLearningRate == 10

LearningRateValues == {DefaultPolicyOnlyLearningRate, DefaultLearningRate}

DefaultFlags ==
  [env_name |-> None,
   env_problem_name |-> None,
   random_seed |-> None,
   batch_size |-> DefaultBatchSize,
   eval_batch_size |-> DefaultEvalBatchSize,
   max_timestep |-> None,
   jax_debug_nans |-> FALSE,
   disable_jit |-> FALSE,
   resize |-> FALSE,
   resized_height |-> DefaultResizedHeight,
   resized_width |-> DefaultResizedWidth,
   combined_network |-> FALSE,
   two_towers |-> TRUE,
   flatten_dims |-> FALSE,
   learning_rate |-> DefaultLearningRate,
   policy_only_learning_rate |-> DefaultPolicyOnlyLearningRate,
   value_only_learning_rate |-> DefaultValueOnlyLearningRate,
   use_tpu |-> FALSE,
   xm |-> FALSE]

----------------------------------------------------------------------------
(* int(FLAGS.random_seed) *)

Digits == <<"0", "1", "2", "3", "4", "5", "6", "7", "8", "9">>
IsDigit(c) == \E i \in 1..10 : Digits[i] = c
DigitVal(c) == (CHOOSE i \in 1..10 : Digits[i] = c) - 1
IsSpace(c) == c = " "

RECURSIVE LStrip(_)
LStrip(s) == IF s # <<>> /\ IsSpace(Head(s)) THEN LStrip(Tail(s)) ELSE s

RECURSIVE RStrip(_)
RStrip(s) ==
  IF s # <<>> /\ IsSpace(s[Len(s)]) THEN RStrip(SubSeq(s, 1, Len(s) - 1))
  ELSE s

\* the digit scanner of int(): left to right, an underscore only between digits
RECURSIVE ScanDigits(_, _, _)
ScanDigits(s, acc, prev) ==
  IF s = <<>> THEN
    IF prev = "_" THEN [ok |-> FALSE, val |-> 0] ELSE [ok |-> TRUE, val |-> acc]
  ELSE IF Head(s) = "_" THEN
    IF prev = "_" \/ prev = "" THEN [ok |-> FALSE, val |-> 0]
    ELSE ScanDigits(Tail(s), acc, "_")
  ELSE IF IsDigit(Head(s)) THEN
    ScanDigits(Tail(s), acc * 10 + DigitVal(Head(s)), Head(s))
  ELSE [ok |-> FALSE, val |-> 0]

\* int(s) that forgets to strip the surrounding whitespace
PyIntOfStr_NoStrip(s) ==
  LET neg == s # <<>> /\ Head(s) = "-"
      signed == s # <<>> /\ Head(s) \in {"+", "-"}
      body == IF signed THEN Tail(s) ELSE s
      r == IF body = <<>> THEN [ok |-> FALSE, val |-> 0]
           ELSE ScanDigits(body, 0, "")
  IN  [ok |-> r.ok, val |-> IF neg THEN 0 - r.val ELSE r.val]

\* int(s) for a str s: ok is FALSE where Python raises ValueError
PyIntOfStr(s) ==
  LET t == RStrip(LStrip(s))
      neg == t # <<>> /\ Head(t) = "-"
      signed == t # <<>> /\ Head(t) \in {"+", "-"}
      body == IF signed THEN Tail(t) ELSE t
      r == IF body = <<>> THEN [ok |-> FALSE, val |-> 0]
           ELSE ScanDigits(body, 0, "")
  IN  [ok |-> r.ok, val |-> IF neg THEN 0 - r.val ELSE r.val]

\* int(x) for the flag value: int(None) raises TypeError
PyInt(opt) ==
  IF opt = None THEN [ok |-> FALSE, val |-> 0] ELSE PyIntOfStr(opt[1])

\* random_seed = None; try: random_seed = int(...) except Exception: pass
ParseSeed(opt) == IF PyInt(opt).ok THEN Some(PyInt(opt).val) ELSE None

----------------------------------------------------------------------------
(* common_layers, atari_layers, make_env, get_optimizer_fun *)

AtariLayers == <<"AtariCnn">>

DenseBody == <<"Dense(64)", "Tanh", "Dense(64)", "Tanh">>

\* "Pong" in FLAGS.env_problem_name raises TypeError when the flag is None
PongCheckRaises(F) == F.env_problem_name = None

IsPongProblem(F) == Contains(Pong, F.env_problem_name[1])

\* common_layers(): called only where PongCheckRaises(F) is FALSE
CommonLayers(F) ==
  IF IsPongProblem(F) THEN AtariLayers
  ELSE (IF F.flatten_dims THEN <<"Div(255.0)", "Flatten(2)">> ELSE <<>>)
       \o DenseBody

RewardRange == <<-1, 1>>

GymEnv(name) ==
  [kind |-> "gym.make", name |-> name, batch_size |-> None,
   reward_range |-> None, env_wrapper_fn |-> None]

WrapperFn(F) ==
  [rl_env_max_episode_steps |-> F.max_timestep,
   maxskip_env |-> TRUE,
   rendered_env |-> TRUE,
   rendered_env_resize_to |-> <<F.resized_height, F.resized_width>>,
   sticky_actions |-> FALSE,
   output_dtype |-> IF F.use_tpu THEN Some("int32") ELSE None]

\* make_env without the assert on line 164
MakeEnv_NoAssert(F, batch_size) ==
  IF Truthy(F.env_name) THEN
    [raised |-> FALSE, value |-> Some(GymEnv(F.env_name[1]))]
  ELSE
    [raised |-> FALSE,
     value |-> Some([kind |-> IF F.resize THEN "RenderedEnvProblem"
                              ELSE "EnvProblem",
                     name |-> F.env_problem_name[1],
                     batch_size |-> Some(batch_size),
                     reward_range |-> Some(RewardRange),
                     env_wrapper_fn |-> IF F.resize THEN Some(WrapperFn(F))
                                        ELSE None])]

\* make_env(batch_size): raised is TRUE where the assert on line 164 fails
MakeEnv(F, batch_size) ==
  IF Truthy(F.env_name) THEN
    [raised |-> FALSE, value |-> Some(GymEnv(F.env_name[1]))]
  ELSE IF ~Truthy(F.env_problem_name) THEN
    [raised |-> TRUE, value |-> None]
  ELSE IF ~F.resize THEN
    [raised |-> FALSE,
     value |-> Some([kind |-> "EnvProblem",
                     name |-> F.env_problem_name[1],
                     batch_size |-> Some(batch_size),
                     reward_range |-> Some(RewardRange),
                     env_wrapper_fn |-> None])]
  ELSE
    [raised |-> FALSE,
     value |-> Some([kind |-> "RenderedEnvProblem",
                     name |-> F.env_problem_name[1],
                     batch_size |-> Some(batch_size),
                     reward_range |-> Some(RewardRange),
                     env_wrapper_fn |-> Some(WrapperFn(F))])]

\* functools.partial(ppo.optimizer_fun, step_size=learning_rate)
GetOptimizerFun(learning_rate) ==
  [fn |-> "ppo.optimizer_fun", step_size |-> learning_rate]

\* lines 217-222: the six locals of run_training_loop start as None
NoNets ==
  [policy_net_fun |-> None,
   value_net_fun |-> None,
   policy_and_value_net_fun |-> None,
   policy_optimizer_fun |-> None,
   value_optimizer_fun |-> None,
   policy_and_value_optimizer_fun |-> None]

\* the branch with the separate networks built on both sides of it
SelectNetworks_BothShapes(F) ==
  [policy_net_fun |->
     Some([fn |-> "ppo.policy_net", bottom_layers |-> CommonLayers(F)]),
   value_net_fun |->
     Some([fn |-> "ppo.value_net", bottom_layers |-> CommonLayers(F)]),
   policy_and_value_net_fun |->
     IF F.combined_network
     THEN Some([fn |-> "ppo.policy_and_value_net",
                bottom_layers_fn |-> "common_layers",
                two_towers |-> F.two_towers])
     ELSE None,
   policy_optimizer_fun |-> Some(GetOptimizerFun(F.policy_only_learning_rate)),
   value_optimizer_fun |-> Some(GetOptimizerFun(F.value_only_learning_rate)),
   policy_and_value_optimizer_fun |->
     IF F.combined_network THEN Some(GetOptimizerFun(F.learning_rate))
     ELSE None]

\* the branch with the value optimizer bound to the combined learning rate
SelectNetworks_SharedRate(F) ==
  IF F.combined_network THEN
    [NoNets EXCEPT
       !.policy_and_value_net_fun =
          Some([fn |-> "ppo.policy_and_value_net",
                bottom_layers_fn |-> "common_layers",
                two_towers |-> F.two_towers]),
       !.policy_and_value_optimizer_fun =
          Some(GetOptimizerFun(F.learning_rate))]
  ELSE
    [NoNets EXCEPT
       !.policy_net_fun =
          Some([fn |-> "ppo.policy_net", bottom_layers |-> CommonLayers(F)]),
       !.value_net_fun =
          Some([fn |-> "ppo.value_net", bottom_layers |-> CommonLayers(F)]),
       !.policy_optimizer_fun =
          Some(GetOptimizerFun(F.policy_only_learning_rate)),
       !.value_optimizer_fun =
          Some(GetOptimizerFun(F.learning_rate))]

\* lines 224-236: the branch on FLAGS.combined_network
SelectNetworks(F) ==
  IF F.combined_network THEN
    [NoNets EXCEPT
       !.policy_and_value_net_fun =
          Some([fn |-> "ppo.policy_and_value_net",
                bottom_layers_fn |-> "common_layers",
                two_towers |-> F.two_towers]),
       !.policy_and_value_optimizer_fun =
          Some(GetOptimizerFun(F.learning_rate))]
  ELSE
    [NoNets EXCEPT
       !.policy_net_fun =
          Some([fn |-> "ppo.policy_net", bottom_layers |-> CommonLayers(F)]),
       !.value_net_fun =
          Some([fn |-> "ppo.value_net", bottom_layers |-> CommonLayers(F)]),
       !.policy_optimizer_fun =
          Some(GetOptimizerFun(F.policy_only_learning_rate)),
       !.value_optimizer_fun =
          Some(GetOptimizerFun(F.value_only_learning_rate))]

\* the keyword arguments of ppo.training_loop that the driver computes
TrainerArgs(e, ee, n, seed, F) ==
  [env |-> e,
   eval_env |-> ee,
   policy_net_fun |-> n.policy_net_fun,
   value_net_fun |-> n.value_net_fun,
   policy_and_value_net_fun |-> n.policy_and_value_net_fun,
   policy_optimizer_fun |-> n.policy_optimizer_fun,
   value_optimizer_fun |-> n.value_optimizer_fun,
   policy_and_value_optimizer_fun |-> n.policy_and_value_optimizer_fun,
   batch_size |-> F.batch_size,
   random_seed |-> seed]

----------------------------------------------------------------------------
(* Backend configuration and the jax.disable_jit() scope *)

InitialConfig == [jax_debug_nans |-> FALSE, jax_platform_name |-> None]

\* lines 197-200: config.update(...)
UpdateConfig(F, c) ==
  [jax_debug_nans |-> IF F.jax_debug_nans THEN TRUE ELSE c.jax_debug_nans,
   jax_platform_name |->
     IF F.use_tpu THEN Some("tpu") ELSE c.jax_platform_name]

\* line 272: the condition of the guard
WantsDisableJit(F) == F.jax_debug_nans \/ F.disable_jit

\* JIT mode while the with-block of line 273 is open
JitInsideScope(F, before) == IF WantsDisableJit(F) THEN TRUE ELSE before

\* a scope that sets the mode and never puts the old one back
JitAfterScope_NoRestore(F, before) ==
  IF WantsDisableJit(F) THEN TRUE ELSE before

\* JIT mode once run_training_loop() has returned or raised: the context
\* manager puts back the value it found
JitAfterScope(F, before) == before

\* a broad except clause around the call, like the one of the seed parse
Propagate_Swallowed(e) == None

\* what leaves main when run_training_loop() raises e: there is no except
\* clause around lines 272-276 and the context manager re-raises
Propagate(e) == Some(e)

----------------------------------------------------------------------------
(* Command lines *)

SeedAlphabet == {"0", "7", "-", "+", " ", "_", "a"}

SeedStrings == UNION {[1..n -> SeedAlphabet] : n \in 0..MaxSeedLen}

SeedFlagValues == {None} \cup {Some(s) : s \in SeedStrings}

BatchSizes == 1..MaxBatch

\* every flag that decides a branch of main, with both batch sizes
FlagsMain ==
  {[DefaultFlags EXCEPT
      !.env_name = en, !.env_problem_name = ep, !.random_seed = s,
      !.batch_size = bs, !.eval_batch_size = ebs,
      !.jax_debug_nans = b[1], !.disable_jit = b[2], !.use_tpu = b[3],
      !.xm = b[4], !.resize = b[5], !.combined_network = b[6],
      !.two_towers = b[7], !.flatten_dims = b[8]] :
   en \in EnvNames, ep \in EnvProblemNames,
   s \in {None, Some(<<"7">>)},
   bs \in BatchSizes, ebs \in BatchSizes, b \in [1..8 -> BOOLEAN]}

\* every seed string, on a few command lines
FlagsSeed ==
  {[DefaultFlags EXCEPT
      !.env_problem_name = ep, !.random_seed = s,
      !.combined_network = b[1], !.disable_jit = b[2]] :
   ep \in {None, Some(CartPoleV1), Some(PongNoFrameskipV4)},
   s \in SeedFlagValues, b \in [1..2 -> BOOLEAN]}

\* every choice of the three learning rates, on a few command lines
FlagsLR ==
  {[DefaultFlags EXCEPT
      !.env_name = en, !.env_problem_name = ep,
      !.combined_network = c, !.learning_rate = lr[1],
      !.policy_only_learning_rate = lr[2],
      !.value_only_learning_rate = lr[3]] :
   en \in {None, Some(CartPoleV0)},
   ep \in {None, Some(CartPoleV1), Some(PongNoFrameskipV4)},
   c \in BOOLEAN, lr \in [1..3 -> LearningRateValues]}

----------------------------------------------------------------------------
(* The run *)

NoAtari == [atari_roms_path |-> None, roms_copied |-> FALSE]

TrainerExceptions == {"RuntimeError", "AssertionError"}

InitWith(flagSets) ==
  /\ FLAGS \in flagSets
  /\ pc = "main"
  /\ config = InitialConfig
  /\ jit_disabled = FALSE
  /\ jit_saved = None
  /\ atari = NoAtari
  /\ env = None
  /\ eval_env = None
  /\ nets = NoNets
  /\ random_seed = None
  /\ trainer_calls = 0
  /\ trainer_args = None
  /\ thrown = None
  /\ error = None

Init == InitWith(FlagsMain)

\* an exception leaves main from position p
Raise(type, where) ==
  /\ pc' = "failed"
  /\ error' = Some([type |-> type, where |-> where])

\* lines 197-200
Main_UpdateConfig ==
  /\ pc = "main"
  /\ config' = UpdateConfig(FLAGS, config)
  /\ pc' = "rom_check"
  /\ UNCHANGED <<FLAGS, jit_disabled, jit_saved, atari, env, eval_env, nets,
                 random_seed, trainer_calls, trainer_args, thrown, error>>

\* lines 203-206
Main_RomCheck ==
  /\ pc = "rom_check"
  /\ IF PongCheckRaises(FLAGS) THEN
       /\ Raise("TypeError", "main:203")
       /\ atari' = atari
     ELSE
       /\ pc' = "make_env"
       /\ error' = error
       /\ atari' = IF IsPongProblem(FLAGS) /\ FLAGS.xm
                   THEN [atari_roms_path |-> Some("local_ram_fs_tmp"),
                         roms_copied |-> TRUE]
                   ELSE atari
  /\ UNCHANGED <<FLAGS, config, jit_disabled, jit_saved, env, eval_env, nets,
                 random_seed, trainer_calls, trainer_args, thrown>>

\* lines 209-210
Main_MakeEnv ==
  /\ pc = "make_env"
  /\ LET r == MakeEnv(FLAGS, FLAGS.batch_size) IN
       IF r.raised THEN
         /\ Raise("AssertionError", "make_env:164")
         /\ env' = env
       ELSE
         /\ env' = r.value
         /\ pc' = "make_eval_env"
         /\ error' = error
  /\ UNCHANGED <<FLAGS, config, jit_disabled, jit_saved, atari, eval_env,
                 nets, random_seed, trainer_calls, trainer_args, thrown>>

\* lines 212-213
Main_MakeEvalEnv ==
  /\ pc = "make_eval_env"
  /\ LET r == MakeEnv(FLAGS, FLAGS.eval_batch_size) IN
       IF r.raised THEN
         /\ Raise("AssertionError", "make_env:164")
         /\ eval_env' = eval_env
       ELSE
         /\ eval_env' = r.value
         /\ pc' = "guard"
         /\ error' = error
  /\ UNCHANGED <<FLAGS, config, jit_disabled, jit_saved, atari, env, nets,
                 random_seed, trainer_calls, trainer_args, thrown>>

\* lines 272-276: run_training_loop() is entered, inside jax.disable_jit()
\* when either debug flag is set
Main_EnterTraining ==
  /\ pc = "guard"
  /\ jit_saved' = Some(jit_disabled)
  /\ jit_disabled' = JitInsideScope(FLAGS, jit_disabled)
  /\ pc' = "select"
  /\ UNCHANGED <<FLAGS, config, atari, env, eval_env, nets, random_seed,
                 trainer_calls, trainer_args, thrown, error>>

\* run_training_loop() is left: the with-block, if any, closes
LeaveTraining ==
  /\ jit_disabled' = JitAfterScope(FLAGS, jit_saved[1])
  /\ jit_saved' = None

\* lines 217-236
RunTrainingLoop_Select ==
  /\ pc = "select"
  /\ IF ~FLAGS.combined_network /\ PongCheckRaises(FLAGS) THEN
       /\ Raise("TypeError", "common_layers:145")
       /\ LeaveTraining
       /\ nets' = nets
     ELSE
       /\ nets' = SelectNetworks(FLAGS)
       /\ pc' = "parse_seed"
       /\ UNCHANGED <<error, jit_disabled, jit_saved>>
  /\ UNCHANGED <<FLAGS, config, atari, env, eval_env, random_seed,
                 trainer_calls, trainer_args, thrown>>

\* lines 238-242
RunTrainingLoop_ParseSeed ==
  /\ pc = "parse_seed"
  /\ random_seed' = ParseSeed(FLAGS.random_seed)
  /\ pc' = "call_trainer"
  /\ UNCHANGED <<FLAGS, config, jit_disabled, jit_saved, atari, env,
                 eval_env, nets, trainer_calls, trainer_args, thrown, error>>

\* lines 244-270: ppo.training_loop(...) is called
RunTrainingLoop_CallTrainer ==
  /\ pc = "call_trainer"
  /\ trainer_calls' = trainer_calls + 1
  /\ trainer_args' =
       Some(TrainerArgs(env[1], eval_env[1], nets, random_seed, FLAGS))
  /\ pc' = "in_trainer"
  /\ UNCHANGED <<FLAGS, config, jit_disabled, jit_saved, atari, env,
                 eval_env, nets, random_seed, thrown, error>>

\* ppo.training_loop returns; so do run_training_loop and main
Trainer_Returns ==
  /\ pc = "in_trainer"
  /\ LeaveTraining
  /\ pc' = "done"
  /\ UNCHANGED <<FLAGS, config, atari, env, eval_env, nets, random_seed,
                 trainer_calls, trainer_args, thrown, error>>

\* ppo.training_loop raises e
Trainer_Raises ==
  /\ pc = "in_trainer"
  /\ \E e \in TrainerExceptions :
       /\ thrown' = Some([type |-> e, where |-> "ppo.training_loop"])
       /\ error' = Propagate([type |-> e, where |-> "ppo.training_loop"])
       /\ pc' = IF Propagate([type |-> e, where |-> "ppo.training_loop"]) = None
                THEN "done" ELSE "failed"
  /\ LeaveTraining
  /\ UNCHANGED <<FLAGS, config, atari, env, eval_env, nets, random_seed,
                 trainer_calls, trainer_args>>

Next ==
  \/ Main_UpdateConfig
  \/ Main_RomCheck
  \/ Main_MakeEnv
  \/ Main_MakeEvalEnv
  \/ Main_EnterTraining
  \/ RunTrainingLoop_Select
  \/ RunTrainingLoop_ParseSeed
  \/ RunTrainingLoop_CallTrainer
  \/ Trainer_Returns
  \/ Trainer_Raises

Spec == Init /\ [][Next]_vars

SpecSeed == InitWith(FlagsSeed) /\ [][Next]_vars

SpecLR == InitWith(FlagsLR) /\ [][Next]_vars

----------------------------------------------------------------------------
(* Properties *)

\* positions inside the call run_training_loop() of lines 274 / 276
InTraining == pc \in {"select", "parse_seed", "call_trainer", "in_trainer"}

\* the run ended without ppo.training_loop having been entered
FailedBeforeTrainer == pc = "failed" /\ trainer_calls = 0

NoEnvId(F) == ~Truthy(F.env_name) /\ ~Truthy(F.env_problem_name)

ConfigErrors ==
  {[type |-> "TypeError", where |-> "main:203"],
   [type |-> "AssertionError", where |-> "make_env:164"]}

\* C1: whenever ppo.training_loop has been called, its network arguments
\* have exactly one shape: with combined_network the two combined fields
\* are populated and the four separate ones are None; without it the four
\* separate fields are populated and the two combined ones are None.
C1_ExactlyOneShape ==
  trainer_args # None =>
    LET a == trainer_args[1]
        combined == {a.policy_and_value_net_fun,
                     a.policy_and_value_optimizer_fun}
        separate == {a.policy_net_fun, a.value_net_fun,
                     a.policy_optimizer_fun, a.value_optimizer_fun}
    IN  IF FLAGS.combined_network
        THEN None \notin combined /\ separate = {None}
        ELSE None \notin separate /\ combined = {None}

C1_Witness ==
  /\ trainer_args # None
  /\ FLAGS.combined_network
  /\ trainer_args[1].policy_and_value_net_fun # None
  /\ trainer_args[1].policy_net_fun = None

\* C2: with no environment identifier (env_name and env_problem_name both
\* None or "") the run never gets past the first make_env call, cannot
\* stop anywhere but in failure, and fails with a configuration error
\* (the TypeError of line 203 or the AssertionError of line 164) in a
\* state with no environment handle, no network or optimizer factory and
\* no trainer call.
C2_NoEnvIdFailsFast ==
  NoEnvId(FLAGS) =>
    /\ pc \in {"main", "rom_check", "make_env", "failed"}
    /\ pc # "failed" => ENABLED Next
    /\ pc = "failed" => error # None /\ error[1] \in ConfigErrors
    /\ env = None /\ eval_env = None
    /\ nets = NoNets
    /\ trainer_calls = 0 /\ trainer_args = None

C2_Witness ==
  /\ NoEnvId(FLAGS)
  /\ FLAGS.env_problem_name = Some(EmptyName)
  /\ pc = "failed"
  /\ error = Some([type |-> "AssertionError", where |-> "make_env:164"])
  /\ env = None

\* C3 (as claimed): once both environments are built, they have the same
\* name and wrapper settings, the train handle has batch size batch_size,
\* the eval handle has batch size eval_batch_size and both have reward
\* range (-1, 1), whichever flag named the environment.
C3_Claim ==
  (env # None /\ eval_env # None) =>
    /\ env[1].kind = eval_env[1].kind
    /\ env[1].name = eval_env[1].name
    /\ env[1].env_wrapper_fn = eval_env[1].env_wrapper_fn
    /\ env[1].batch_size = Some(FLAGS.batch_size)
    /\ eval_env[1].batch_size = Some(FLAGS.eval_batch_size)
    /\ env[1].reward_range = Some(<<-1, 1>>)
    /\ eval_env[1].reward_range = Some(<<-1, 1>>)

IsIntLiteralBody(b) ==
  /\ b # <<>>
  /\ \A k \in 1..Len(b) : IsDigit(b[k]) \/ b[k] = "_"
  /\ IsDigit(b[1]) /\ IsDigit(b[Len(b)])
  /\ \A k \in 1..(Len(b) - 1) : ~(b[k] = "_" /\ b[k + 1] = "_")

IsIntLiteral(s) ==
  \E i \in 0..Len(s) : \E j \in i..Len(s) :
    /\ \A k \in 1..i : s[k] = " "
    /\ \A k \in (j + 1)..Len(s) : s[k] = " "
    /\ i < j
    /\ LET m == SubSeq(s, i + 1, j)
       IN  IsIntLiteralBody(IF m[1] \in {"+", "-"} THEN Tail(m) ELSE m)

RECURSIVE Pow10(_)
Pow10(n) == IF n = 0 THEN 1 ELSE 10 * Pow10(n - 1)

RECURSIVE PlaceSum(_, _)
PlaceSum(d, k) ==
  IF k > Len(d) THEN 0
  ELSE DigitVal(d[k]) * Pow10(Len(d) - k) + PlaceSum(d, k + 1)

IntLiteralValue(s) ==
  LET magnitude == PlaceSum(SelectSeq(s, IsDigit), 1)
  IN  IF \E k \in 1..Len(s) : s[k] = "-" THEN 0 - magnitude ELSE magnitude

ExpectedSeed(opt) ==
  IF opt # None /\ IsIntLiteral(opt[1]) THEN Some(IntLiteralValue(opt[1]))
  ELSE None

\* C5: for every value of random_seed, the seed passed to the trainer is
\* the integer the string denotes when it denotes one, and None when it is
\* unset or denotes none; the parse never ends the run: after it the run
\* stands at the trainer call with no error.
C5_SeedParse ==
  /\ pc = "call_trainer" =>
       error = None /\ random_seed = ExpectedSeed(FLAGS.random_seed)
  /\ trainer_args # None =>
       trainer_args[1].random_seed = ExpectedSeed(FLAGS.random_seed)
  /\ pc = "parse_seed" => ENABLED RunTrainingLoop_ParseSeed

C5_Witness ==
  /\ trainer_args # None
  /\ FLAGS.random_seed = Some(<<" ", "7">>)
  /\ trainer_args[1].random_seed = Some(7)

\* the optimizer factories a run with flags F hands to the trainer
OptimizerFuns(n) ==
  [policy |-> n.policy_optimizer_fun,
   value |-> n.value_optimizer_fun,
   combined |-> n.policy_and_value_optimizer_fun]

\* C6: in combined mode the one optimizer factory carries learning_rate;
\* in separate mode the policy factory carries policy_only_learning_rate
\* and the value factory value_only_learning_rate; and a run that differs
\* in one of the three learning rates only gets the same factory wherever
\* the factory is not bound to that option.
C6_LearningRateBinding ==
  trainer_args # None =>
    LET a == trainer_args[1]
        mine == OptimizerFuns(a)
    IN  /\ FLAGS.combined_network =>
             a.policy_and_value_optimizer_fun[1].step_size
               = FLAGS.learning_rate
        /\ ~FLAGS.combined_network =>
             /\ a.policy_optimizer_fun[1].step_size
                  = FLAGS.policy_only_learning_rate
             /\ a.value_optimizer_fun[1].step_size
                  = FLAGS.value_only_learning_rate
        /\ \A v \in LearningRateValues :
             LET o1 == OptimizerFuns(
                         SelectNetworks([FLAGS EXCEPT !.learning_rate = v]))
                 o2 == OptimizerFuns(
                         SelectNetworks(
                           [FLAGS EXCEPT !.policy_only_learning_rate = v]))
                 o3 == OptimizerFuns(
                         SelectNetworks(
                           [FLAGS EXCEPT !.value_only_learning_rate = v]))
             IN  /\ o1.policy = mine.policy /\ o1.value = mine.value
                 /\ o2.value = mine.value /\ o2.combined = mine.combined
                 /\ o3.policy = mine.policy /\ o3.combined = mine.combined

C6_Witness ==
  /\ trainer_args # None
  /\ ~FLAGS.combined_network
  /\ FLAGS.policy_only_learning_rate # FLAGS.value_only_learning_rate
  /\ FLAGS.learning_rate # FLAGS.value_only_learning_rate
  /\ trainer_args[1].value_optimizer_fun[1].step_size
       = FLAGS.value_only_learning_rate

\* the body stack common_layers would build for the name w
LayersForName(w, F) ==
  IF Contains(Pong, w) THEN AtariLayers
  ELSE (IF F.flatten_dims THEN <<"Div(255.0)", "Flatten(2)">> ELSE <<>>)
       \o DenseBody

\* C7 (as claimed): in a run with env_name set, every decision that
\* depends on the environment identifier is taken from env_name: the two
\* environments, the Pong test that picks the body stack, and the Pong
\* test before the ROM copy.
C7_Claim ==
  Truthy(FLAGS.env_name) =>
    LET w == FLAGS.env_name[1] IN
      /\ env # None => env[1].name = w
      /\ eval_env # None => eval_env[1].name = w
      /\ pc \notin {"main", "rom_check"} =>
           (atari.roms_copied <=> (Contains(Pong, w) /\ FLAGS.xm))
      /\ nets.policy_net_fun # None =>
           /\ nets.policy_net_fun[1].bottom_layers = LayersForName(w, FLAGS)
           /\ nets.value_net_fun[1].bottom_layers = LayersForName(w, FLAGS)

\* C8 (as claimed): with an environment identifier given through either
\* flag, whatever the other flags, the run does not fail before the
\* trainer call.
C8_Claim ==
  (Truthy(FLAGS.env_name) \/ Truthy(FLAGS.env_problem_name)) =>
    ~FailedBeforeTrainer

\* C9 (as claimed): outside the call run_training_loop(), that is before
\* it, after it has returned or raised, and where the run aborts with a
\* configuration error, the backend configuration (NaN trap, platform,
\* JIT mode) is the one of process start.
C9_Claim ==
  ~InTraining => config = InitialConfig /\ jit_disabled = FALSE

\* C10: ppo.training_loop is called at most once, and only once the train
\* environment, then the eval environment, then the network and optimizer
\* factories exist, which are the ones it is given; what it raises leaves
\* main unchanged and the run ends as that failure; a run that ends
\* normally has called it exactly once.
C10_TrainerOnceAndPropagates ==
  /\ trainer_calls \in {0, 1}
  /\ eval_env # None => env # None
  /\ nets # NoNets => eval_env # None
  /\ trainer_calls = 1 =>
       /\ env # None /\ eval_env # None /\ nets # NoNets
       /\ trainer_args # None
       /\ trainer_args[1].env = env[1]
       /\ trainer_args[1].eval_env = eval_env[1]
  /\ trainer_calls = 0 => trainer_args = None /\ thrown = None
  /\ thrown # None => pc = "failed" /\ error = thrown /\ trainer_calls = 1
  /\ pc = "done" => trainer_calls = 1 /\ thrown = None /\ error = None

C10_Witness ==
  /\ pc = "failed"
  /\ thrown = Some([type |-> "RuntimeError", where |-> "ppo.training_loop"])
  /\ error = thrown
  /\ trainer_calls = 1

====
